---- MODULE Spec2Model ----
(***************************************************************************)
(* A model of microcosm's configuration loaders (microcosm/loaders.py):    *)
(* get_config_filename, _load_from_file, load_from_json_file,              *)
(* load_from_python_file, load_from_environ and load_each.                 *)
(*                                                                         *)
(* Python strings are sequences of one-character strings, so that upper(), *)
(* lower(), replace(), split() and startswith() are computed, not assumed. *)
(* A Python value is a one-field record whose field name is its type:      *)
(*   [int |-> 1]  [bool |-> TRUE]  [none |-> TRUE]  [str |-> <<"x">>]      *)
(*   [map |-> f]  with f a function from key strings to values (a dict).   *)
(***************************************************************************)
EXTENDS Integers, Sequences, FiniteSets, TLC

(***************************************************************************)
(* Bounds of the model.                                                    *)
(***************************************************************************)
\* the most environment variables an environment of SpecEnv holds
MaxEnv == 3
\* the most loaders handed to load_each
MaxLoaders == 3

(***************************************************************************)
(* Strings.                                                                *)
(***************************************************************************)
LowerChars ==
    <<"a","b","c","d","e","f","g","h","i","j","k","l","m",
      "n","o","p","q","r","s","t","u","v","w","x","y","z">>

UpperChars ==
    <<"A","B","C","D","E","F","G","H","I","J","K","L","M",
      "N","O","P","Q","R","S","T","U","V","W","X","Y","Z">>

DigitChars == <<"0","1","2","3","4","5","6","7","8","9">>

Range(s) == {s[j] : j \in DOMAIN s}

LowerSet == Range(LowerChars)

UpperSet == Range(UpperChars)

DigitSet == Range(DigitChars)

IsLowerChar(c) == c \in LowerSet

IsUpperChar(c) == c \in UpperSet

IsDigitChar(c) == c \in DigitSet

DigitValue(c) == (CHOOSE j \in DOMAIN DigitChars : DigitChars[j] = c) - 1

ToUpper ==
    [c \in LowerSet |-> UpperChars[CHOOSE j \in DOMAIN LowerChars : LowerChars[j] = c]]

ToLower ==
    [c \in UpperSet |-> LowerChars[CHOOSE j \in DOMAIN UpperChars : UpperChars[j] = c]]

\* str.upper()
upper(s) == [j \in DOMAIN s |-> IF s[j] \in LowerSet THEN ToUpper[s[j]] ELSE s[j]]

\* str.lower()
lower(s) == [j \in DOMAIN s |-> IF s[j] \in UpperSet THEN ToLower[s[j]] ELSE s[j]]

\* str.replace(old, new) for one-character old and new
replace(s, old, new) == [i \in DOMAIN s |-> IF s[i] = old THEN new ELSE s[i]]

\* str.startswith(prefix)
startswith(s, prefix) ==
    /\ Len(prefix) <= Len(s)
    /\ SubSeq(s, 1, Len(prefix)) = prefix

\* str.split(sep) for a one-character sep: n separators give n + 1 parts,
\* empty parts included.  SplitFrom reads s from position j on, part being the
\* part read so far.
RECURSIVE SplitFrom(_, _, _, _)
SplitFrom(s, sep, j, part) ==
    IF j > Len(s) THEN <<part>>
    ELSE IF s[j] = sep THEN <<part>> \o SplitFrom(s, sep, j + 1, <<>>)
    ELSE SplitFrom(s, sep, j + 1, Append(part, s[j]))

split(s, sep) == SplitFrom(s, sep, 1, <<>>)

\* sep.join(parts)
RECURSIVE join(_, _)
join(parts, sep) ==
    IF parts = <<>> THEN <<>>
    ELSE IF Len(parts) = 1 THEN parts[1]
    ELSE parts[1] \o <<sep>> \o join(Tail(parts), sep)

\* inflection.underscore(word):
\*   re.sub(r"([A-Z]+)([A-Z][a-z])", r"\1_\2", word)
\*   re.sub(r"([a-z\d])([A-Z])", r"\1_\2", word)
\*   word.replace("-", "_").lower()
\* An underscore goes after position i when the first pattern ends its group 1
\* there, or the second pattern matches at i, i + 1.
RECURSIVE InsertAfter(_, _, _)
InsertAfter(s, i, at) ==
    IF i > Len(s) THEN <<>>
    ELSE (IF i \in at THEN <<s[i], "_">> ELSE <<s[i]>>) \o InsertAfter(s, i + 1, at)

underscore(word) ==
    LET acronym == {i \in DOMAIN word :
                       /\ i + 2 <= Len(word)
                       /\ IsUpperChar(word[i])
                       /\ IsUpperChar(word[i + 1])
                       /\ IsLowerChar(word[i + 2])}
        w1 == InsertAfter(word, 1, acronym)
        camel == {i \in DOMAIN w1 :
                     /\ i + 1 <= Len(w1)
                     /\ (IsLowerChar(w1[i]) \/ IsDigitChar(w1[i]))
                     /\ IsUpperChar(w1[i + 1])}
        w2 == InsertAfter(w1, 1, camel)
    IN  lower(replace(w2, "-", "_"))

(***************************************************************************)
(* json.loads on the literals the environments of the model hold:          *)
(* integers, true, false, null, strings without escapes and the empty      *)
(* object.  Any other text raises ValueError.                              *)
(***************************************************************************)
RECURSIVE ParseDigits(_, _)
ParseDigits(s, acc) ==
    IF s = <<>> THEN acc ELSE ParseDigits(Tail(s), 10 * acc + DigitValue(Head(s)))

IsJsonNat(s) ==
    /\ s # <<>>
    /\ \A i \in DOMAIN s : IsDigitChar(s[i])
    /\ (Len(s) > 1 => s[1] # "0")

IsJsonString(s) ==
    /\ Len(s) >= 2
    /\ s[1] = "\""
    /\ s[Len(s)] = "\""
    /\ \A i \in 2..(Len(s) - 1) : s[i] \notin {"\"", "\\"}

ValueError == [raised |-> "ValueError"]

Returned(v) == [raised |-> "", value |-> v]

EmptyDict == [k \in {} |-> 0]

loads(s) ==
    IF IsJsonNat(s) THEN Returned([int |-> ParseDigits(s, 0)])
    ELSE IF s # <<>> /\ s[1] = "-" /\ IsJsonNat(Tail(s))
         THEN Returned([int |-> 0 - ParseDigits(Tail(s), 0)])
    ELSE IF s = <<"t","r","u","e">> THEN Returned([bool |-> TRUE])
    ELSE IF s = <<"f","a","l","s","e">> THEN Returned([bool |-> FALSE])
    ELSE IF s = <<"n","u","l","l">> THEN Returned([none |-> TRUE])
    ELSE IF IsJsonString(s) THEN Returned([str |-> SubSeq(s, 2, Len(s) - 1)])
    ELSE IF s = <<"{","}">> THEN Returned([map |-> EmptyDict])
    ELSE ValueError

(***************************************************************************)
(* Dictionaries.  Configuration() and dict() are both [map |-> f]; a       *)
(* reference into the configuration (the variable dct of                   *)
(* load_from_environ) is the path of keys that leads to the dictionary.    *)
(***************************************************************************)
IsDict(v) == "map" \in DOMAIN v

Configuration(data) == [map |-> data]

\* d[key] = value on the dictionary d
Put(d, key, value) ==
    [k \in (DOMAIN d) \cup {key} |-> IF k = key THEN value ELSE d[k]]

\* the object the path leads to, from root
RECURSIVE getitem(_, _)
getitem(root, path) ==
    IF path = <<>> THEN root ELSE getitem(root.map[Head(path)], Tail(path))

RECURSIVE StoreAt(_, _, _, _)
StoreAt(root, path, key, value) ==
    IF path = <<>>
    THEN [map |-> Put(root.map, key, value)]
    ELSE [map |-> Put(root.map, Head(path),
                      StoreAt(root.map[Head(path)], Tail(path), key, value))]

\* dct[key] = value, dct being the object at path dct of st.config: item
\* assignment on anything but a dictionary raises TypeError
setitem(st, dct, key, value) ==
    IF st.raised # "" THEN st
    ELSE IF IsDict(getitem(st.config, dct))
         THEN [st EXCEPT !.config = StoreAt(st.config, dct, key, value)]
         ELSE [st EXCEPT !.raised = "TypeError"]

(***************************************************************************)
(* load_from_environ                                                       *)
(***************************************************************************)
\* prefix = metadata.name.upper().replace("-", "_").split("_")
EnvPrefix(name) == split(replace(upper(name), "-", "_"), "_")

\* matches_key with >= for >
matches_key_not_strict(prefix, key_parts) ==
    /\ Len(key_parts) >= Len(prefix)
    /\ SubSeq(key_parts, 1, Len(prefix)) = prefix

matches_key(prefix, key_parts) ==
    /\ Len(key_parts) > Len(prefix)
    /\ SubSeq(key_parts, 1, Len(prefix)) = prefix

\* BuildNested with dct = dct.setdefault(key_part.lower(), dict()): what an
\* earlier variable built under the key is kept
RECURSIVE BuildNestedKeep(_, _, _)
BuildNestedKeep(st, dct, parts) ==
    IF parts = <<>> THEN [st |-> st, dct |-> dct]
    ELSE LET k == lower(Head(parts))
             here == getitem(st.config, dct)
         IN  IF st.raised = "" /\ IsDict(here) /\ k \in DOMAIN here.map
             THEN BuildNestedKeep(st, dct \o <<k>>, Tail(parts))
             ELSE BuildNestedKeep(setitem(st, dct, k, [map |-> EmptyDict]),
                                  dct \o <<k>>, Tail(parts))

\* for key_part in key_parts[len(prefix):-1]:
\*     dct[key_part.lower()] = dict(); dct = dct[key_part.lower()]
\* The result carries the final dct.
RECURSIVE BuildNested(_, _, _)
BuildNested(st, dct, parts) ==
    IF parts = <<>> THEN [st |-> st, dct |-> dct]
    ELSE LET k == lower(Head(parts))
         IN  BuildNested(setitem(st, dct, k, [map |-> EmptyDict]),
                         dct \o <<k>>, Tail(parts))

\* SetFinal without the decoding: the raw string is stored
SetFinalRaw(st, dct, last, value) == setitem(st, dct, lower(last), [str |-> value])

\* try: dct[key_parts[-1].lower()] = loads(value)
\* except ValueError: dct[key_parts[-1].lower()] = value
SetFinal(st, dct, last, value) ==
    LET r == loads(value)
    IN  IF r.raised = ""
        THEN setitem(st, dct, lower(last), r.value)
        ELSE setitem(st, dct, lower(last), [str |-> value])

\* the body of the loop over environ.items(), for one item
EnvironItem(st, prefix, item) ==
    LET key_parts == split(item.key, "_")
    IN  IF st.raised # "" \/ ~matches_key(prefix, key_parts) THEN st
        ELSE LET b == BuildNested(st, <<>>,
                          SubSeq(key_parts, Len(prefix) + 1, Len(key_parts) - 1))
             IN  SetFinal(b.st, b.dct, key_parts[Len(key_parts)], item.value)

\* EnvironLoop with "return config" inside the loop body: it returns after the
\* first variable it stores
RECURSIVE EnvironLoopReturnsEarly(_, _, _)
EnvironLoopReturnsEarly(st, prefix, items) ==
    IF items = <<>> THEN st
    ELSE IF matches_key(prefix, split(Head(items).key, "_"))
         THEN EnvironItem(st, prefix, Head(items))
         ELSE EnvironLoopReturnsEarly(st, prefix, Tail(items))

RECURSIVE EnvironLoop(_, _, _)
EnvironLoop(st, prefix, items) ==
    IF items = <<>> THEN st
    ELSE EnvironLoop(EnvironItem(st, prefix, Head(items)), prefix, Tail(items))

\* items is environ.items() in the order the platform enumerates it
load_from_environ(name, items) ==
    EnvironLoop([config |-> Configuration(EmptyDict), raised |-> ""],
                EnvPrefix(name), items)

(***************************************************************************)
(* The environment: os.environ as the sequence of its items, in the order  *)
(* environ.items() enumerates them; no two items share a key.              *)
(***************************************************************************)
Item(key, value) == [key |-> key, value |-> value]

HasKey(items, key) == \E j \in DOMAIN items : items[j].key = key

Lookup(items, key) == items[CHOOSE j \in DOMAIN items : items[j].key = key].value

DistinctKeys(items) ==
    \A j, k \in DOMAIN items : j # k => items[j].key # items[k].key

None == [none |-> TRUE]

(***************************************************************************)
(* The file loaders.  A file is what each load_func makes of its text:     *)
(* json.loads gives a dictionary or raises ValueError, and the exec of     *)
(* load_python_module fills module.__dict__ or raises.  A path outside     *)
(* the file system makes open() raise IOError.                             *)
(***************************************************************************)
sA == <<"a">>
sB == <<"b">>
sC == <<"c">>
sD == <<"d">>

PathOkJson == <<"/","o","k",".","j","s","o","n">>
PathConfPy == <<"/","c","o","n","f",".","p","y">>
PathBad == <<"/","b","a","d">>

\* ok.json:  {"a": {"b": 1}, "c": 1}
\*           (as Python source: an expression statement, binding nothing)
\* conf.py:  a = {"b": 3}; d = "x"; _private = 1
\* bad:      {
FileSystem ==
    (PathOkJson :>
        [json |-> Returned((sA :> [map |-> (sB :> [int |-> 1])])
                           @@ (sC :> [int |-> 1])),
         python |-> Returned(EmptyDict)])
    @@ (PathConfPy :>
        [json |-> ValueError,
         python |-> Returned((sA :> [map |-> (sB :> [int |-> 3])])
                             @@ (sD :> [str |-> <<"x">>])
                             @@ (<<"_","p","r","i","v","a","t","e">> :> [int |-> 1]))])
    @@ (PathBad :>
        [json |-> ValueError,
         python |-> [raised |-> "SyntaxError"]])

\* module = new_module("magic"); exec data in module.__dict__
\* return the items of module.__dict__ whose key does not start with "_"
load_python_module(parsed) ==
    IF parsed.raised # "" THEN parsed
    ELSE LET dict == parsed.value
                     @@ (<<"_","_","n","a","m","e","_","_">> :> [str |-> <<"m","a","g","i","c">>])
                     @@ (<<"_","_","d","o","c","_","_">> :> None)
             keep == {k \in DOMAIN dict : ~startswith(k, <<"_">>)}
         IN  Returned([k \in keep |-> dict[k]])

\* envvar = "{}_SETTINGS".format(underscore(metadata.name).upper())
SettingsVar(name) ==
    upper(underscore(name)) \o <<"_","S","E","T","T","I","N","G","S">>

\* environ[envvar], or None on KeyError
get_config_filename(name, items) ==
    IF HasKey(items, SettingsVar(name))
    THEN [str |-> Lookup(items, SettingsVar(name))]
    ELSE None

\* What one call of a loader did: the exception it raised ("" for none), the
\* Configuration it returned, the settings variable it looked up, the paths it
\* opened and how often it called its load_func.
Outcome(raised, config, envvar, opened, parsed) ==
    [raised |-> raised, config |-> config, envvar |-> envvar,
     opened |-> opened, parsed |-> parsed]

\* load_from_file without "if config_filename is None": open(None) raises
\* TypeError
load_from_file_unchecked(name, items, load_func) ==
    LET config_filename == get_config_filename(name, items)
        envvar == SettingsVar(name)
    IN  IF config_filename = None
        THEN Outcome("TypeError", None, envvar, <<>>, 0)
        ELSE LET path == config_filename.str
             IN  IF path \notin DOMAIN FileSystem
                 THEN Outcome("IOError", None, envvar, <<path>>, 0)
                 ELSE Outcome("", Configuration(FileSystem[path].json.value),
                              envvar, <<path>>, 1)

\* load_func is "json" (loads) or "python" (load_python_module)
load_from_file(name, items, load_func) ==
    LET config_filename == get_config_filename(name, items)
        envvar == SettingsVar(name)
    IN  IF config_filename = None
        THEN Outcome("", Configuration(EmptyDict), envvar, <<>>, 0)
        ELSE LET path == config_filename.str
             IN  IF path \notin DOMAIN FileSystem
                 THEN Outcome("IOError", None, envvar, <<path>>, 0)
                 ELSE LET data == IF load_func = "json"
                                  THEN FileSystem[path].json
                                  ELSE load_python_module(FileSystem[path].python)
                      IN  IF data.raised # ""
                          THEN Outcome(data.raised, None, envvar, <<path>>, 1)
                          ELSE Outcome("", Configuration(data.value), envvar,
                                       <<path>>, 1)

load_from_json_file(name, items) == load_from_file(name, items, "json")

load_from_python_file(name, items) == load_from_file(name, items, "python")

Loaders == {"load_from_json_file", "load_from_python_file", "load_from_environ"}

\* loader(metadata)
CallLoader(loader, name, items) ==
    IF loader = "load_from_json_file" THEN load_from_json_file(name, items)
    ELSE IF loader = "load_from_python_file" THEN load_from_python_file(name, items)
    ELSE LET st == load_from_environ(name, items)
         IN  Outcome(st.raised, IF st.raised = "" THEN st.config ELSE None,
                     <<>>, <<>>, 0)

(***************************************************************************)
(* Configuration.merge(other): the recursive right-biased merge of the     *)
(* Configuration class (microcosm/configuration.py).                       *)
(***************************************************************************)
RECURSIVE merge(_, _)
merge(self, other) ==
    [map |->
        [k \in (DOMAIN self.map) \cup (DOMAIN other.map) |->
            IF k \notin DOMAIN other.map THEN self.map[k]
            ELSE IF k \notin DOMAIN self.map THEN other.map[k]
            ELSE IF IsDict(self.map[k]) /\ IsDict(other.map[k])
                 THEN merge(self.map[k], other.map[k])
                 ELSE other.map[k]]]

(***************************************************************************)
(* The inputs of the model: metadata names and environments.               *)
(***************************************************************************)
\* the names load_from_environ is called with
Names ==
    {<<"f","o","o">>,
     <<"b","a","r">>,
     <<"f","o","o","-","b","a","r">>,
     <<"f","o","o","_","b","a","r">>}

\* the names of the services that combine loaders
ServiceNames ==
    {<<"f","o","o">>,
     <<"f","o","o","-","b","a","r">>,
     <<"f","o","o","B","a","r">>}

\* the variables an environment is drawn from:
\*   FOO=1  foo_bar=x  FOO_BAR=null  FOO_BAR_BAZ=x  FOO_BAR_BAZ_QUX=1
\*   FOO_A=true  FOO_A_B=2  FOO_A_C="x"  FOO_a_B={}
EnvItems ==
    {Item(<<"F","O","O">>, <<"1">>),
     Item(<<"f","o","o","_","b","a","r">>, <<"x">>),
     Item(<<"F","O","O","_","B","A","R">>, <<"n","u","l","l">>),
     Item(<<"F","O","O","_","B","A","R","_","B","A","Z">>, <<"x">>),
     Item(<<"F","O","O","_","B","A","R","_","B","A","Z","_","Q","U","X">>, <<"1">>),
     Item(<<"F","O","O","_","A">>, <<"t","r","u","e">>),
     Item(<<"F","O","O","_","A","_","B">>, <<"2">>),
     Item(<<"F","O","O","_","A","_","C">>, <<"\"","x","\"">>),
     Item(<<"F","O","O","_","a","_","B">>, <<"{","}">>)}

\* every enumeration of at most MaxEnv variables with distinct names
EnvSeqs ==
    {items \in UNION {[1..n -> EnvItems] : n \in 0..MaxEnv} : DistinctKeys(items)}

\* the environments the combined loader runs in: the settings variable unset,
\* naming each file of FileSystem or a missing one, with and without variables
\* of the service
EachEnvirons ==
    {<<>>,
     <<Item(<<"F","O","O","_","S","E","T","T","I","N","G","S">>, <<"/","o","k",".","j","s","o","n">>)>>,
     <<Item(<<"F","O","O","_","A","_","C">>, <<"2">>),
       Item(<<"F","O","O","_","S","E","T","T","I","N","G","S">>, <<"/","o","k",".","j","s","o","n">>),
       Item(<<"F","O","O","_","C">>, <<"2">>)>>,
     <<Item(<<"F","O","O","_","S","E","T","T","I","N","G","S">>, <<"/","c","o","n","f",".","p","y">>),
       Item(<<"F","O","O","_","A","_","C">>, <<"2">>)>>,
     <<Item(<<"F","O","O","_","S","E","T","T","I","N","G","S">>, <<"/","m","i","s","s","i","n","g">>)>>,
     <<Item(<<"F","O","O","_","A","_","C">>, <<"2">>),
       Item(<<"F","O","O","_","S","E","T","T","I","N","G","S">>, <<"/","b","a","d">>)>>,
     <<Item(<<"F","O","O","_","B","A","R","_","S","E","T","T","I","N","G","S">>, <<"/","o","k",".","j","s","o","n">>),
       Item(<<"F","O","O","_","B","A","R","_","A","_","C">>, <<"2">>)>>,
     <<Item(<<"F","O","O","B","A","R","_","S","E","T","T","I","N","G","S">>, <<"/","c","o","n","f",".","p","y">>),
       Item(<<"F","O","O","B","A","R","_","C">>, <<"x">>)>>,
     <<Item(<<"F","O","O","_","A","_","C">>, <<"2">>),
       Item(<<"F","O","O","_","C">>, <<"2">>)>>}

\* load_each(*loaders): every sequence of at most MaxLoaders loaders
LoaderSeqs == UNION {[1..n -> Loaders] : n \in 0..MaxLoaders}

(***************************************************************************)
(* State.                                                                  *)
(***************************************************************************)
VARIABLES
    name,         \* metadata.name
    environ,      \* os.environ, as the sequence environ.items() enumerates
    out,          \* what a direct call of load_from_environ returned
    loaders,      \* the loaders the closure _load_each holds
    pc,           \* where _load_each stands
    i,            \* the index in loaders of the next loader of the for loop
    config,       \* _load_each's config
    next_config,  \* _load_each's next_config
    calls,        \* the loader calls of this invocation, each with its Outcome
    merged,       \* the config.merge calls of this invocation
    raised,       \* the exception that left _load_each, "" for none
    result,       \* what _load_each returned, None before
    runs          \* the invocations of the combined loader so far: 0, 1, or
                  \* 2 for two and more

vars == <<name, environ, out, loaders, pc, i, config, next_config, calls,
          merged, raised, result, runs>>

NotCalled == [called |-> FALSE]

Idle ==
    /\ out = NotCalled
    /\ pc = "idle"
    /\ i = 0
    /\ config = None
    /\ next_config = None
    /\ calls = <<>>
    /\ merged = 0
    /\ raised = ""
    /\ result = None
    /\ runs = 0

\* load_each(*loaders) was called; the combined loader is not yet invoked
Init ==
    /\ name \in ServiceNames
    /\ environ \in EachEnvirons
    /\ loaders \in LoaderSeqs
    /\ Idle

\* no combined loader; load_from_environ is about to be called directly
InitEnviron ==
    /\ name \in Names
    /\ environ \in EnvSeqs
    /\ loaders = <<>>
    /\ Idle

(***************************************************************************)
(* load_from_environ(metadata), called directly.                           *)
(***************************************************************************)
LoadFromEnviron ==
    /\ out = NotCalled
    /\ out' = [called |-> TRUE] @@ load_from_environ(name, environ)
    /\ UNCHANGED <<name, environ, loaders, pc, i, config, next_config, calls,
                   merged, raised, result, runs>>

(***************************************************************************)
(* _load_each(metadata), statement by statement.                           *)
(***************************************************************************)
Called(k, loader, o) == [index |-> k, loader |-> loader] @@ o

\* Invoke of a combined loader that keeps what it returned: a later invocation
\* returns it again and calls no loader
InvokeCached ==
    /\ pc \in {"idle", "returned", "raised"}
    /\ runs' = IF runs < 2 THEN runs + 1 ELSE runs
    /\ pc' = IF pc = "returned" THEN "returned" ELSE "first"
    /\ i' = 0
    /\ config' = None
    /\ next_config' = None
    /\ calls' = <<>>
    /\ merged' = 0
    /\ raised' = ""
    /\ result' = IF pc = "returned" THEN result ELSE None
    /\ UNCHANGED <<name, environ, out, loaders>>

\* the combined loader is invoked
Invoke ==
    /\ pc \in {"idle", "returned", "raised"}
    /\ runs' = IF runs < 2 THEN runs + 1 ELSE runs
    /\ pc' = "first"
    /\ i' = 0
    /\ config' = None
    /\ next_config' = None
    /\ calls' = <<>>
    /\ merged' = 0
    /\ raised' = ""
    /\ result' = None
    /\ UNCHANGED <<name, environ, out, loaders>>

\* config = loaders[0](metadata)
CallFirst ==
    /\ pc = "first"
    /\ IF loaders = <<>>
       THEN /\ pc' = "raised"
            /\ raised' = "IndexError"
            /\ UNCHANGED <<config, calls, i>>
       ELSE LET o == CallLoader(loaders[1], name, environ)
            IN  /\ calls' = Append(calls, Called(1, loaders[1], o))
                /\ IF o.raised # ""
                   THEN /\ pc' = "raised"
                        /\ raised' = o.raised
                        /\ UNCHANGED <<config, i>>
                   ELSE /\ pc' = "loop"
                        /\ config' = o.config
                        /\ i' = 2
                        /\ UNCHANGED raised
    /\ UNCHANGED <<name, environ, out, loaders, next_config, merged, result, runs>>

\* CallNext inside try/except: a loader that raises counts as an empty
\* Configuration and the loop goes on
CallNextSwallows ==
    /\ pc = "loop"
    /\ i <= Len(loaders)
    /\ LET o == CallLoader(loaders[i], name, environ)
       IN  /\ calls' = Append(calls, Called(i, loaders[i], o))
           /\ pc' = "merge"
           /\ next_config' = IF o.raised # "" THEN Configuration(EmptyDict)
                                              ELSE o.config
    /\ UNCHANGED <<name, environ, out, loaders, i, config, merged, raised,
                   result, runs>>

\* for loader in loaders[1:]: next_config = loader(metadata)
CallNext ==
    /\ pc = "loop"
    /\ i <= Len(loaders)
    /\ LET o == CallLoader(loaders[i], name, environ)
       IN  /\ calls' = Append(calls, Called(i, loaders[i], o))
           /\ IF o.raised # ""
              THEN /\ pc' = "raised"
                   /\ raised' = o.raised
                   /\ UNCHANGED next_config
              ELSE /\ pc' = "merge"
                   /\ next_config' = o.config
                   /\ UNCHANGED raised
    /\ UNCHANGED <<name, environ, out, loaders, i, config, merged, result, runs>>

\* MergeNext with config = next_config: the later output replaces the earlier
MergeNextOverwrites ==
    /\ pc = "merge"
    /\ config' = next_config
    /\ merged' = merged + 1
    /\ i' = i + 1
    /\ pc' = "loop"
    /\ UNCHANGED <<name, environ, out, loaders, next_config, calls, raised,
                   result, runs>>

\* MergeNext with next_config.merge(config); config = next_config: the earlier
\* output is merged on top of the later
MergeNextSwapped ==
    /\ pc = "merge"
    /\ config' = merge(next_config, config)
    /\ merged' = merged + 1
    /\ i' = i + 1
    /\ pc' = "loop"
    /\ UNCHANGED <<name, environ, out, loaders, next_config, calls, raised,
                   result, runs>>

\* config.merge(next_config)
MergeNext ==
    /\ pc = "merge"
    /\ config' = merge(config, next_config)
    /\ merged' = merged + 1
    /\ i' = i + 1
    /\ pc' = "loop"
    /\ UNCHANGED <<name, environ, out, loaders, next_config, calls, raised,
                   result, runs>>

\* return config
Return ==
    /\ pc = "loop"
    /\ i > Len(loaders)
    /\ result' = config
    /\ pc' = "returned"
    /\ UNCHANGED <<name, environ, out, loaders, i, config, next_config, calls,
                   merged, raised, runs>>

Next == Invoke \/ CallFirst \/ CallNext \/ MergeNext \/ Return

Spec == Init /\ [][Next]_vars

NextEnviron == LoadFromEnviron

SpecEnviron == InitEnviron /\ [][NextEnviron]_vars

TypeOK ==
    /\ pc \in {"idle", "first", "loop", "merge", "returned", "raised"}
    /\ runs \in 0..2
    /\ DistinctKeys(environ)

(***************************************************************************)
(* What the claims speak of, stated apart from the code above.             *)
(***************************************************************************)
EmptyConfiguration == [map |-> EmptyDict]

\* the name uppercased, "-" replaced by "_", split on "_"
NamePrefix(nm) == split(replace(upper(nm), "-", "_"), "_")

\* the variable named key belongs to the service named nm
Belongs(nm, key) ==
    LET parts == split(key, "_")
        prefix == NamePrefix(nm)
    IN  /\ Len(parts) > Len(prefix)
        /\ \A j \in 1..Len(prefix) : parts[j] = prefix[j]

BelongsHere(item) == Belongs(name, item.key)

\* the parts of key after the prefix of nm, lower-cased
KeyPath(nm, key) ==
    LET parts == split(key, "_")
    IN  [j \in 1..(Len(parts) - Len(NamePrefix(nm))) |->
            lower(parts[Len(NamePrefix(nm)) + j])]

\* the value of a variable: its JSON literal, or the raw string
Decoded(value) ==
    IF loads(value).raised = "" THEN loads(value).value ELSE [str |-> value]

\* the nested mapping holding value at path and nothing else
RECURSIVE SinglePath(_, _)
SinglePath(path, value) ==
    IF Len(path) = 1
    THEN [map |-> (path[1] :> value)]
    ELSE [map |-> (path[1] :> SinglePath(Tail(path), value))]

\* value sits at path in the nested mapping root
RECURSIVE HoldsAt(_, _, _)
HoldsAt(root, path, value) ==
    /\ IsDict(root)
    /\ path[1] \in DOMAIN root.map
    /\ IF Len(path) = 1
       THEN root.map[path[1]] = value
       ELSE HoldsAt(root.map[path[1]], Tail(path), value)

\* every enumeration order of the items
Orders(items) ==
    {[j \in 1..Len(items) |-> items[p[j]]] : p \in Permutations(1..Len(items))}

Reverse(items) == [j \in 1..Len(items) |-> items[Len(items) + 1 - j]]

\* the environment holds the variable key
Has(key) == HasKey(environ, key)

\* load_from_environ on the environment holding only the variable key of environ
Alone(key) ==
    load_from_environ(name, <<Item(key, Lookup(environ, key))>>)

nFoo == <<"f","o","o">>
nBar == <<"b","a","r">>
nFooDashBar == <<"f","o","o","-","b","a","r">>
nFooUnderBar == <<"f","o","o","_","b","a","r">>

(***************************************************************************)
(* C3: load_from_environ uses a variable if and only if its name, split on *)
(* "_", is strictly longer than the prefix of the metadata name and starts *)
(* with the parts of that prefix: a variable alone in the environment      *)
(* gives a non-empty configuration exactly then, and the variables that do *)
(* not belong change nothing.  FOO is left out for name foo, foo_bar and   *)
(* FOO_BAR for name bar; FOO_BAR_BAZ is used for names foo_bar and foo-bar.*)
(***************************************************************************)
C3_MatchIffPrefix ==
    out.called =>
        /\ \A j \in DOMAIN environ :
              (Alone(environ[j].key).config # EmptyConfiguration)
                  <=> Belongs(name, environ[j].key)
        /\ out.raised = ""
        /\ out.config = load_from_environ(name, SelectSeq(environ, BelongsHere)).config
        /\ (name = nFoo /\ Has(<<"F","O","O">>))
              => Alone(<<"F","O","O">>).config = EmptyConfiguration
        /\ (name = nBar /\ Has(<<"f","o","o","_","b","a","r">>))
              => Alone(<<"f","o","o","_","b","a","r">>).config = EmptyConfiguration
        /\ (name = nBar /\ Has(<<"F","O","O","_","B","A","R">>))
              => Alone(<<"F","O","O","_","B","A","R">>).config = EmptyConfiguration
        /\ (name \in {nFooUnderBar, nFooDashBar} /\ Has(<<"F","O","O","_","B","A","R","_","B","A","Z">>))
              => Alone(<<"F","O","O","_","B","A","R","_","B","A","Z">>).config
                     = [map |-> (<<"b","a","z">> :> [str |-> <<"x">>])]

\* name foo, with FOO (left out) beside FOO_BAR (used)
C3_Witness ==
    /\ out.called
    /\ name = nFoo
    /\ Has(<<"F","O","O">>)
    /\ Has(<<"F","O","O","_","B","A","R">>)
    /\ out.config = [map |-> (<<"b","a","r">> :> None)]

(***************************************************************************)
(* C4: when exactly one variable of the environment belongs to the         *)
(* service, load_from_environ returns the single path of the lower-cased   *)
(* parts after the prefix, ending in the variable's value decoded as JSON, *)
(* or in its raw string when it is not JSON.  Name foo-bar with            *)
(* FOO_BAR_BAZ_QUX=1 gives {baz: {qux: 1}}, 1 an integer.                  *)
(***************************************************************************)
C4_SinglePath ==
    out.called =>
        /\ \A j \in DOMAIN environ :
              (\A k \in DOMAIN environ : BelongsHere(environ[k]) <=> k = j)
                  => /\ out.raised = ""
                     /\ out.config = SinglePath(KeyPath(name, environ[j].key),
                                                Decoded(environ[j].value))
        /\ (name = nFooDashBar /\ environ = <<Item(<<"F","O","O","_","B","A","R","_","B","A","Z","_","Q","U","X">>, <<"1">>)>>)
              => out.config
                     = [map |-> (<<"b","a","z">> :> [map |-> (<<"q","u","x">> :> [int |-> 1])])]
        /\ (name = nFooDashBar /\ environ = <<Item(<<"F","O","O","_","B","A","R","_","B","A","Z">>, <<"x">>)>>)
              => out.config = [map |-> (<<"b","a","z">> :> [str |-> <<"x">>])]

\* name foo-bar with FOO_BAR_BAZ_QUX=1 the only variable that belongs
C4_Witness ==
    /\ out.called
    /\ name = nFooDashBar
    /\ Has(<<"F","O","O","_","B","A","R","_","B","A","Z","_","Q","U","X">>)
    /\ Len(environ) > 1
    /\ \A j \in DOMAIN environ :
          BelongsHere(environ[j]) <=> environ[j].key = <<"F","O","O","_","B","A","R","_","B","A","Z","_","Q","U","X">>
    /\ out.config = [map |-> (<<"b","a","z">> :> [map |-> (<<"q","u","x">> :> [int |-> 1])])]

(***************************************************************************)
(* C9: load_from_environ raises nothing, and under each top-level key its  *)
(* result holds only what the variable processed last among those whose    *)
(* path starts with that key put there: every variable replaces what the   *)
(* earlier ones built under its first key.  With FOO_A_B and FOO_A_C, or   *)
(* FOO_A and FOO_A_B, the one enumerated last decides the content of a.    *)
(***************************************************************************)
\* the position of the last variable whose path starts with the key k
LastUnder(k) ==
    CHOOSE j \in DOMAIN environ :
        /\ BelongsHere(environ[j])
        /\ KeyPath(name, environ[j].key)[1] = k
        /\ \A m \in DOMAIN environ :
              (BelongsHere(environ[m]) /\ KeyPath(name, environ[m].key)[1] = k)
                  => m <= j

C9_LastVariableWins ==
    out.called =>
        /\ out.raised = ""
        /\ DOMAIN out.config.map
              = {KeyPath(name, environ[j].key)[1] :
                    j \in {m \in DOMAIN environ : BelongsHere(environ[m])}}
        /\ \A k \in DOMAIN out.config.map :
              [map |-> (k :> out.config.map[k])]
                  = SinglePath(KeyPath(name, environ[LastUnder(k)].key),
                               Decoded(environ[LastUnder(k)].value))
        /\ (name = nFoo
               /\ environ = <<Item(<<"F","O","O","_","A","_","B">>, <<"2">>), Item(<<"F","O","O","_","A","_","C">>, <<"\"","x","\"">>)>>)
              => out.config = [map |-> (<<"a">> :> [map |-> (<<"c">> :> [str |-> <<"x">>])])]
        /\ (name = nFoo
               /\ environ = <<Item(<<"F","O","O","_","A","_","C">>, <<"\"","x","\"">>), Item(<<"F","O","O","_","A","_","B">>, <<"2">>)>>)
              => out.config = [map |-> (<<"a">> :> [map |-> (<<"b">> :> [int |-> 2])])]
        /\ (name = nFoo
               /\ environ = <<Item(<<"F","O","O","_","A">>, <<"t","r","u","e">>), Item(<<"F","O","O","_","A","_","B">>, <<"2">>)>>)
              => out.config = [map |-> (<<"a">> :> [map |-> (<<"b">> :> [int |-> 2])])]
        /\ (name = nFoo
               /\ environ = <<Item(<<"F","O","O","_","A","_","B">>, <<"2">>), Item(<<"F","O","O","_","A">>, <<"t","r","u","e">>)>>)
              => out.config = [map |-> (<<"a">> :> [bool |-> TRUE])]

\* FOO_A after FOO_A_B: the scalar replaced the nested mapping, and the other
\* order gives another result, without an error
C9_Witness ==
    /\ out.called
    /\ name = nFoo
    /\ environ = <<Item(<<"F","O","O","_","A","_","B">>, <<"2">>), Item(<<"F","O","O","_","A">>, <<"t","r","u","e">>)>>
    /\ out.config = [map |-> (<<"a">> :> [bool |-> TRUE])]
    /\ load_from_environ(name, Reverse(environ)).raised = ""
    /\ load_from_environ(name, Reverse(environ)).config # out.config

(***************************************************************************)
(* C10: when the variables that belong to the service start their paths    *)
(* with pairwise distinct keys (lower-cased), every enumeration order of   *)
(* the environment gives the same result, and the result holds the decoded *)
(* value of every such variable at its full path.                          *)
(***************************************************************************)
DistinctFirstKeys ==
    \A j, k \in DOMAIN environ :
        (j # k /\ BelongsHere(environ[j]) /\ BelongsHere(environ[k]))
            => KeyPath(name, environ[j].key)[1] # KeyPath(name, environ[k].key)[1]

C10_OrderIndependent ==
    (out.called /\ DistinctFirstKeys) =>
        /\ \A items \in Orders(environ) :
              [called |-> TRUE] @@ load_from_environ(name, items) = out
        /\ \A j \in DOMAIN environ :
              BelongsHere(environ[j])
                  => HoldsAt(out.config, KeyPath(name, environ[j].key),
                             Decoded(environ[j].value))

\* FOO_A_B and FOO_BAR_BAZ_QUX of foo under the distinct keys a and bar, beside
\* foo_bar, which does not belong
C10_Witness ==
    /\ out.called
    /\ name = nFoo
    /\ DistinctFirstKeys
    /\ Len(environ) = 3
    /\ Has(<<"F","O","O","_","A","_","B">>)
    /\ Has(<<"F","O","O","_","B","A","R","_","B","A","Z","_","Q","U","X">>)
    /\ Has(<<"f","o","o","_","b","a","r">>)
    /\ HoldsAt(out.config, <<<<"a">>, <<"b">>>>, [int |-> 2])
    /\ HoldsAt(out.config, <<<<"b","a","r">>, <<"b","a","z">>, <<"q","u","x">>>>, [int |-> 1])

(***************************************************************************)
(* The combined loader.                                                    *)
(***************************************************************************)
\* what the k-th loader does when called on its own
Output(k) == CallLoader(loaders[k], name, environ)

AllSucceed == \A k \in DOMAIN loaders : Output(k).raised = ""

FileLoaders == {"load_from_json_file", "load_from_python_file"}

\* acc with the outputs of the loaders k, k + 1, ... merged into it in order
RECURSIVE FoldFrom(_, _)
FoldFrom(acc, k) ==
    IF k > Len(loaders) THEN acc
    ELSE FoldFrom(merge(acc, Output(k).config), k + 1)

(***************************************************************************)
(* C1: for a non-empty sequence of loaders that all succeed, the combined  *)
(* loader raises nothing and returns the left-to-right fold: the empty     *)
(* Configuration with the output of every loader merged into it in the     *)
(* order given.                                                            *)
(***************************************************************************)
C1_LeftFold ==
    (loaders # <<>> /\ AllSucceed) =>
        /\ pc # "raised"
        /\ pc = "returned" => result = FoldFrom(EmptyConfiguration, 1)

\* three loaders returned, and the result is the output of none of them
C1_Witness ==
    /\ pc = "returned"
    /\ Len(loaders) = 3
    /\ AllSucceed
    /\ \A k \in DOMAIN loaders : result # Output(k).config
    /\ result = FoldFrom(EmptyConfiguration, 1)

(***************************************************************************)
(* C2: config.merge(next_config) in load_each is a right-biased recursive  *)
(* merge: a key only next_config has is added, a key at which both hold a  *)
(* nested mapping is merged recursively, at any other key of next_config   *)
(* its value replaces config's, and the keys only config has keep their    *)
(* value.  So the scalars of the last loader stand in the result, and with *)
(* the file {a: {b: 1}, c: 1} before the variables FOO_A_C=2 and FOO_C=2   *)
(* the result holds a = {b: 1, c: 2} and c = 2.                            *)
(***************************************************************************)
RECURSIVE RightBiased(_, _, _)
RightBiased(A, B, R) ==
    /\ IsDict(R)
    /\ DOMAIN R.map = (DOMAIN A.map) \cup (DOMAIN B.map)
    /\ \A k \in (DOMAIN A.map) \ (DOMAIN B.map) : R.map[k] = A.map[k]
    /\ \A k \in DOMAIN B.map :
          IF k \notin DOMAIN A.map THEN R.map[k] = B.map[k]
          ELSE IF IsDict(A.map[k]) /\ IsDict(B.map[k])
               THEN RightBiased(A.map[k], B.map[k], R.map[k])
               ELSE R.map[k] = B.map[k]

LaterScalarWins ==
    (pc = "returned" /\ Len(loaders) >= 2) =>
        /\ \A k \in DOMAIN Output(Len(loaders)).config.map :
              ~IsDict(Output(Len(loaders)).config.map[k])
                  => /\ k \in DOMAIN result.map
                     /\ result.map[k] = Output(Len(loaders)).config.map[k]
        /\ (/\ name = nFoo
            /\ loaders = <<"load_from_json_file", "load_from_environ">>
            /\ Has(<<"F","O","O","_","A","_","C">>) /\ Has(<<"F","O","O","_","C">>)
            /\ Has(<<"F","O","O","_","S","E","T","T","I","N","G","S">>)
            /\ Lookup(environ, <<"F","O","O","_","S","E","T","T","I","N","G","S">>) = PathOkJson)
              => /\ result.map[<<"a">>]
                        = [map |-> (<<"b">> :> [int |-> 1]) @@ (<<"c">> :> [int |-> 2])]
                 /\ result.map[<<"c">>] = [int |-> 2]

C2_RightBiasedMerge ==
    /\ [][(pc = "merge" /\ pc' = "loop")
             => RightBiased(config, next_config, config')]_vars
    /\ []LaterScalarWins

\* the file's a.b survived beside the variable's a.c, and the variable's c won
C2_Witness ==
    /\ pc = "returned"
    /\ name = nFoo
    /\ loaders = <<"load_from_json_file", "load_from_environ">>
    /\ HoldsAt(Output(1).config, <<<<"a">>, <<"b">>>>, [int |-> 1])
    /\ HoldsAt(Output(1).config, <<<<"c">>>>, [int |-> 1])
    /\ HoldsAt(Output(2).config, <<<<"a">>, <<"c">>>>, [int |-> 2])
    /\ HoldsAt(Output(2).config, <<<<"c">>>>, [int |-> 2])
    /\ result.map[<<"a">>] = [map |-> (<<"b">> :> [int |-> 1]) @@ (<<"c">> :> [int |-> 2])]
    /\ result.map[<<"c">>] = [int |-> 2]

(***************************************************************************)
(* C5: the file loaders read the path from the variable named by the       *)
(* metadata name uppercased, "-" replaced by "_", followed by "_SETTINGS": *)
(* the prefix of load_from_environ joined by "_", also for mixed-case      *)
(* names.                                                                  *)
(***************************************************************************)
C5_SettingsVarFromPrefix ==
    \A k \in DOMAIN calls :
        calls[k].loader \in FileLoaders
            => calls[k].envvar
                   = join(NamePrefix(name), "_") \o <<"_","S","E","T","T","I","N","G","S">>

(***************************************************************************)
(* C6: a file loader called while the settings variable it looks up is     *)
(* unset returns an empty Configuration, raises nothing, opens no file and *)
(* does not call its parse function.                                       *)
(***************************************************************************)
C6_UnsetSettingsIsEmpty ==
    \A k \in DOMAIN calls :
        (calls[k].loader \in FileLoaders /\ ~Has(SettingsVar(name)))
            => /\ calls[k].raised = ""
               /\ calls[k].config = EmptyConfiguration
               /\ calls[k].opened = <<>>
               /\ calls[k].parsed = 0

\* both file loaders ran with FOO_SETTINGS unset, beside variables of foo
C6_Witness ==
    /\ pc = "returned"
    /\ name = nFoo
    /\ environ # <<>>
    /\ ~Has(<<"F","O","O","_","S","E","T","T","I","N","G","S">>)
    /\ loaders = <<"load_from_json_file", "load_from_python_file">>
    /\ Len(calls) = 2
    /\ result = EmptyConfiguration

(***************************************************************************)
(* C7: when a loader of the combined loader raises, the combined loader    *)
(* raises that same exception, returns no Configuration, and calls no      *)
(* loader after the failing one; it returns only when no loader raises.    *)
(***************************************************************************)
FirstFailing ==
    CHOOSE k \in DOMAIN loaders :
        /\ Output(k).raised # ""
        /\ \A m \in 1..(k - 1) : Output(m).raised = ""

C7_AllOrNothing ==
    /\ \A k \in DOMAIN calls :
          calls[k].raised # ""
              => /\ k = Len(calls)
                 /\ pc = "raised"
                 /\ raised = calls[k].raised
    /\ pc = "raised" => result = None
    /\ (pc = "raised" /\ loaders # <<>>)
          => /\ ~AllSucceed
             /\ Len(calls) = FirstFailing
             /\ raised = Output(FirstFailing).raised
    /\ ~AllSucceed => (pc # "returned" /\ result = None)

\* the second of three loaders raised: the third was never called
C7_Witness ==
    /\ pc = "raised"
    /\ Len(loaders) = 3
    /\ Len(calls) = 2
    /\ calls[1].raised = ""
    /\ calls[1].config # EmptyConfiguration
    /\ raised = "IOError"
    /\ result = None

(***************************************************************************)
(* C8: an invocation of the combined loader calls its loaders one at a     *)
(* time in the order given, each once; the output of a loader is merged    *)
(* before the next loader is called; and a later invocation calls every    *)
(* loader again.                                                           *)
(***************************************************************************)
C8_OnceInOrder ==
    /\ \A k \in DOMAIN calls :
          /\ calls[k].index = k
          /\ k <= Len(loaders)
          /\ calls[k].loader = loaders[k]
    /\ pc = "loop" => (merged = Len(calls) - 1 /\ i = Len(calls) + 1)
    /\ pc = "merge" => (merged = Len(calls) - 2 /\ i = Len(calls))
    /\ pc = "returned"
          => /\ Len(calls) = Len(loaders)
             /\ merged = Len(loaders) - 1

\* the second invocation of three loaders returned after calling all three
C8_Witness ==
    /\ pc = "returned"
    /\ runs = 2
    /\ Len(loaders) = 3
    /\ Len(calls) = 3
    /\ merged = 2

====
